---- MODULE Spec2Model ----
(***************************************************************************)
(* export_models.py: three sequential export procedures (YOLOv8n, Depth    *)
(* Anything V2 Small, SegFormer B0) and the helper save_single_file, seen  *)
(* as a state machine over the file system.                                *)
(*                                                                         *)
(* A path is a directory, as the caller spells it, plus a file name split  *)
(* at its dots, so that the glob patterns of save_single_file and its      *)
(* comparison of path strings are computed, not assumed.  A file is        *)
(* a record: which artifact it holds (art), which run wrote it (run, 0 for *)
(* a file that was there before the first run), its size (0 or more) and   *)
(* the external-data files its graph refers to (refs).                     *)
(***************************************************************************)
EXTENDS Integers, Sequences, FiniteSets, TLC

VARIABLES
    fs,        \* the file system: Paths -> file record (NoFile when absent)
    pc,        \* position of the interpreter inside the current procedure
    cur,       \* the procedure being run: "yolo", "depth", "seg", or "call"
    exc,       \* the unhandled exception that ended the run ("none" if none)
    run,       \* number of the current run of the script (1, 2, ...)
    src_path,  \* save_single_file: argument src_path
    dst_path,  \* save_single_file: argument dst_path
    model,     \* save_single_file: local `model`, the loaded graph
    todo,      \* save_single_file: what is left of the list the for loop walks
    env,       \* what the script does not control, fixed for a behaviour
    fs0,       \* fs when the current run started
    fsCall,    \* fs when save_single_file was last entered
    prev       \* how the run before this one ended ("none" for the first run)

vars == <<fs, pc, cur, exc, run, src_path, dst_path, model, todo, env, fs0, fsCall, prev>>

-----------------------------------------------------------------------------
(* Bounds of the model *)

\* how many runs of the script in a row are followed
MaxRuns == 2

\* how many files the directories hold before the first run
MaxInitFiles == 2

\* how many files refuse deletion or writing (permission denied)
MaxDenied == 1

-----------------------------------------------------------------------------
(* Paths *)

OUT == "app/src/main/assets"

CWD == "."

\* where ultralytics keeps weights when they are not in the working directory
ALT == "weights_dir"

\* another spelling of the output directory
OutDotted == "./app/src/main/assets"

\* the directory a spelling names
CanonDir(d) == IF d = OutDotted THEN OUT ELSE d

\* the file a path string names
Canon(p) == [p EXCEPT !.dir = CanonDir(@)]

P(d, n) == [dir |-> d, name |-> n]

\* p + "." + s[1] + "." + s[2] ...
Suffixed(p, s) == [p EXCEPT !.name = @ \o s]

YoloSrc == P(CWD, <<"yolov8n", "onnx">>)

YoloAlt == P(ALT, <<"yolov8n", "onnx">>)

YoloDst == P(OUT, <<"yolov8n_fp16", "onnx">>)

DepthTmp == P(OUT, <<"_depth_tmp", "onnx">>)

DepthDst == P(OUT, <<"depth_anything_v2_small_fp16", "onnx">>)

SegTmp == P(OUT, <<"_seg_tmp", "onnx">>)

SegDst == P(OUT, <<"segformer_b0", "onnx">>)

Procedures == <<"yolo", "depth", "seg">>

Ord(m) == CHOOSE i \in 1..Len(Procedures) : Procedures[i] = m

Dst(m) == CASE m = "yolo" -> YoloDst [] m = "depth" -> DepthDst [] OTHER -> SegDst

Tmp(m) == IF m = "depth" THEN DepthTmp ELSE SegTmp

\* a graph file whose name holds a character class of glob, and the one name
\* that class stands for
MagicSrc == P(OUT, <<"m[1]", "onnx">>)

Lookalike == P(OUT, <<"m1", "onnx">>)

\* a weight file under a name of its own, as the TorchScript exporter names them
TensorFile(tmp) == P(tmp.dir, <<tmp.name[1], "weight">>)

\* The external-data file an export writes next to tmp, by naming style.
ExtFile(tmp, style) ==
    CASE style = "data" -> Suffixed(tmp, <<"data">>)
      [] style = "part" -> Suffixed(tmp, <<"part", "bin">>)
      [] OTHER -> TensorFile(tmp)

ExtFiles(tmp, layout) == {ExtFile(tmp, s) : s \in layout}

Styles == {"data", "part", "tensor"}

Layouts == {{}, {"data"}, {"data", "part"}, {"tensor"}}

Destinations == {Dst(m) : m \in {"yolo", "depth", "seg"}}

Temporaries == {DepthTmp, SegTmp}

Paths ==
    {YoloSrc, YoloAlt} \cup Destinations \cup Temporaries
    \cup {Suffixed(d, <<"data">>) : d \in Destinations}
    \cup UNION {ExtFiles(t, Styles) : t \in Temporaries \cup {MagicSrc}}
    \cup {MagicSrc, Suffixed(Lookalike, <<"data">>)}

-----------------------------------------------------------------------------
(* Files *)

NoFile == [art |-> "none", run |-> 0, size |-> 0, refs |-> {}]

Exists(f, p) == f[p].art # "none"

\* a graph file of model m written in run r, its weights in the files refs
Graph(m, r, refs) == [art |-> m, run |-> r, size |-> 1, refs |-> refs]

\* an external-data file written in run r
Blob(r) == [art |-> "ext", run |-> r, size |-> 1, refs |-> {}]

\* a file that was there before the first run, of sz bytes
Old(sz) == [art |-> "old", run |-> 0, size |-> sz, refs |-> {}]

IsGraph(c) == c.art \in {"yolo", "depth", "seg"}

\* onnx.load(path, load_external_data=True) succeeds
Loadable(f, q) ==
    /\ Exists(f, Canon(q))
    /\ IsGraph(f[Canon(q)])
    /\ \A e \in f[Canon(q)].refs : Exists(f, e)

-----------------------------------------------------------------------------
(* glob *)

\* fnmatch of one dot-free piece of a name against one piece of a pattern:
\* "[1]" is a character class, every other piece stands for itself
Fnmatch(name, pat) == IF pat = "m[1]" THEN name = "m1" ELSE name = pat

\* the first pieces of name match the pieces of pat, in the same order
MatchesHead(name, pat) ==
    /\ Len(name) >= Len(pat)
    /\ \A i \in 1..Len(pat) : Fnmatch(name[i], pat[i])

\* the existing files of the directory src_path names, each spelled as glob
\* spells it: the directory as src_path gives it, then the file's name
Listing(f, src) ==
    {[dir |-> src.dir, name |-> p.name] :
        p \in {q \in DOMAIN f : Exists(f, q) /\ q.dir = CanonDir(src.dir)}}

\* glob.glob(src_path + ".data")
GlobData(f, src) ==
    {q \in Listing(f, src) : MatchesHead(q.name, src.name \o <<"data">>)
                              /\ Len(q.name) = Len(src.name) + 1}

\* glob.glob(src_path + ".*"): src's name, a dot, and anything, further dots
\* included
GlobAny(f, src) ==
    {q \in Listing(f, src) : MatchesHead(q.name, src.name) /\ Len(q.name) > Len(src.name)}

RECURSIVE SeqOf(_)
\* a set as a list, in the order the directory scan happens to give
SeqOf(S) ==
    IF S = {} THEN <<>>
    ELSE LET x == CHOOSE y \in S : TRUE IN <<x>> \o SeqOf(S \ {x})

\* a mutant of GlobList: only the ".data" pattern
GlobListDataOnly(f, src) == SeqOf(GlobData(f, src))

\* a mutant of GlobList: every ".data" file of the directory
GlobListAnyData(f, src) ==
    SeqOf({q \in Listing(f, src) : q.name[Len(q.name)] = "data"})

\* the list the for loop of save_single_file walks
GlobList(f, src) == SeqOf(GlobData(f, src)) \o SeqOf(GlobAny(f, src))

\* a mutant of ShouldRemove: no guard
ShouldRemoveAll(q, dst) == TRUE

\* the guard of the loop body: the two path strings differ
ShouldRemove(q, dst) == q # dst

\* os.remove(q) inside try / except OSError: pass
TryRemove(f, q, denied) ==
    IF Exists(f, Canon(q)) /\ Canon(q) \notin denied
    THEN [f EXCEPT ![Canon(q)] = NoFile]
    ELSE f

\* onnx.load(..., load_external_data=True): the graph with its weights in memory
Loaded(f, q) == [f[Canon(q)] EXCEPT !.refs = {}]

\* a mutant of Saved: the file is opened for appending
SavedAppending(old, m) == [art |-> m.art, run |-> m.run, size |-> old.size + 1, refs |-> {}]

\* onnx.save(model, dst_path): one self-contained file replaces what was there
Saved(old, m) == [art |-> m.art, run |-> m.run, size |-> 1, refs |-> {}]

-----------------------------------------------------------------------------
(* Unhandled exceptions *)

NoPath == P("", <<>>)

\* an exception nothing catches: the interpreter prints the trace and exits
Raise(kind) ==
    /\ pc' = "aborted"
    /\ exc' = kind
    /\ UNCHANGED <<fs, cur, run, src_path, dst_path, model, todo, env, fs0, fsCall, prev>>

-----------------------------------------------------------------------------
(* save_single_file(src_path, dst_path) *)

\* a mutant of SsfLoad: a source that cannot be loaded is skipped in silence
SsfLoadSkipping ==
    /\ pc = "ssf_load"
    /\ IF Loadable(fs, src_path)
       THEN /\ model' = Loaded(fs, src_path)
            /\ pc' = "ssf_save"
       ELSE /\ pc' = "ssf_rm"
            /\ UNCHANGED model
    /\ UNCHANGED <<fs, cur, exc, run, src_path, dst_path, todo, env, fs0, fsCall, prev>>

SsfLoad ==
    /\ pc = "ssf_load"
    /\ IF Loadable(fs, src_path)
       THEN /\ model' = Loaded(fs, src_path)
            /\ pc' = "ssf_save"
            /\ UNCHANGED <<fs, cur, exc, run, src_path, dst_path, todo, env, fs0, fsCall, prev>>
       ELSE Raise("load")

SsfSave ==
    /\ pc = "ssf_save"
    /\ IF Canon(dst_path) \in env.noWrite
       THEN Raise("write")
       ELSE /\ fs' = [fs EXCEPT ![Canon(dst_path)] = Saved(@, model)]
            /\ todo' = GlobList(fs', src_path)
            /\ pc' = "ssf_rm"
            /\ UNCHANGED <<cur, exc, run, src_path, dst_path, model, env, fs0, fsCall, prev>>

\* one iteration of the for loop
SsfRm ==
    /\ pc = "ssf_rm"
    /\ todo # <<>>
    /\ fs' = IF ShouldRemove(Head(todo), dst_path)
             THEN TryRemove(fs, Head(todo), env.noDelete)
             ELSE fs
    /\ todo' = Tail(todo)
    /\ UNCHANGED <<pc, cur, exc, run, src_path, dst_path, model, env, fs0, fsCall, prev>>

\* a mutant of SsfReturn: the function removes its source before it returns
SsfReturnRemovingSrc ==
    /\ pc = "ssf_rm"
    /\ todo = <<>>
    /\ fs' = TryRemove(fs, src_path, env.noDelete)
    /\ pc' = IF cur = "call" THEN "returned" ELSE "rmtmp"
    /\ UNCHANGED <<cur, exc, run, src_path, dst_path, model, todo, env, fs0, fsCall, prev>>

\* the loop is over: back to the caller
SsfReturn ==
    /\ pc = "ssf_rm"
    /\ todo = <<>>
    /\ pc' = IF cur = "call" THEN "returned" ELSE "rmtmp"
    /\ UNCHANGED <<fs, cur, exc, run, src_path, dst_path, model, todo, env, fs0, fsCall, prev>>

-----------------------------------------------------------------------------
(* The environment *)

\* the files that may refuse deletion, and those that may refuse writing
DeleteCandidates ==
    {DepthTmp, Suffixed(DepthTmp, <<"data">>), Suffixed(SegTmp, <<"part", "bin">>)}

WriteCandidates == {YoloDst, DepthDst, SegTmp}

Denials ==
    {d \in (SUBSET DeleteCandidates) \X (SUBSET WriteCandidates) :
        Cardinality(d[1]) + Cardinality(d[2]) <= MaxDenied}

Envs(dirs, sizes) ==
    {[yoloDir |-> y, layout |-> l, noDelete |-> d[1], noWrite |-> d[2], oldSize |-> z] :
        y \in dirs, l \in Layouts, d \in Denials, z \in sizes}

-----------------------------------------------------------------------------
(* save_single_file on its own, called with any arguments *)

CallSources == {DepthTmp, SegTmp, MagicSrc}

\* the source itself, a file named after it under either spelling of its
\* directory, or a file of another name
CallDestinations(src) ==
    {src, Suffixed(src, <<"data">>), [Suffixed(src, <<"data">>) EXCEPT !.dir = OutDotted],
     DepthDst}

CallFiles ==
    {DepthDst, TensorFile(DepthTmp), Suffixed(Lookalike, <<"data">>)}
    \cup {Suffixed(t, <<"data">>) : t \in CallSources}
    \cup {Suffixed(DepthTmp, <<"part", "bin">>)}

\* what may be at src_path: nothing, a file that is no graph, a graph
CallSourceFiles(src, layout) == {NoFile, Old(1), Graph("depth", 0, ExtFiles(src, layout))}

InitCall ==
    /\ env \in Envs({"cwd"}, {1})
    /\ src_path \in CallSources
    /\ dst_path \in CallDestinations(src_path)
    /\ \E S \in SUBSET CallFiles :
         \E c \in CallSourceFiles(src_path, env.layout) :
            fs = [p \in Paths |-> IF p = src_path THEN c
                                  ELSE IF p \in S THEN Old(1) ELSE NoFile]
    /\ pc = "ssf_load"
    /\ cur = "call"
    /\ exc = "none"
    /\ run = 1
    /\ model = NoFile
    /\ todo = <<>>
    /\ fs0 = fs
    /\ fsCall = fs
    /\ prev = "none"

NextCall == SsfLoad \/ SsfSave \/ SsfRm \/ SsfReturn

SpecCall == InitCall /\ [][NextCall]_vars

-----------------------------------------------------------------------------
(* The script, top to bottom *)

\* YOLO("yolov8n.pt"), from_pretrained(...): the registry answers or fails
Fetch ==
    /\ pc = "fetch"
    /\ \/ /\ pc' = "export"
          /\ UNCHANGED <<fs, cur, exc, run, src_path, dst_path, model, todo, env, fs0, fsCall, prev>>
       \/ Raise("fetch")

\* where model.export(format="onnx") leaves its file: next to the weights
YoloOut(dir) == IF dir = "cwd" THEN YoloSrc ELSE YoloAlt

YoloExport ==
    /\ pc = "export"
    /\ cur = "yolo"
    /\ \/ /\ fs' = [fs EXCEPT ![YoloOut(env.yoloDir)] = Graph("yolo", run, {})]
          /\ pc' = "move"
          /\ UNCHANGED <<cur, exc, run, src_path, dst_path, model, todo, env, fs0, fsCall, prev>>
       \/ Raise("export")

\* shutil.move(src, dst)
Moved(f, src, dst) == [f EXCEPT ![dst] = f[src], ![src] = NoFile]

YoloMove ==
    /\ pc = "move"
    /\ cur = "yolo"
    /\ IF Exists(fs, YoloSrc)
       THEN IF YoloDst \in env.noWrite
            THEN Raise("move")
            ELSE /\ fs' = Moved(fs, YoloSrc, YoloDst)
                 /\ pc' = "report"
                 /\ UNCHANGED <<cur, exc, run, src_path, dst_path, model, todo, env, fs0, fsCall, prev>>
       ELSE /\ pc' = "report"
            /\ UNCHANGED <<fs, cur, exc, run, src_path, dst_path, model, todo, env, fs0, fsCall, prev>>

\* torch.onnx.export(m, dummy, tmp, ...): the graph at tmp, its weights inline
\* or in external-data files beside it
Exported(f, m, r, layout) ==
    [p \in DOMAIN f |->
        IF p = Tmp(m) THEN Graph(m, r, ExtFiles(Tmp(m), layout))
        ELSE IF p \in ExtFiles(Tmp(m), layout) THEN Blob(r)
        ELSE f[p]]

\* torch.onnx.export, then the call save_single_file(tmp, dst)
TorchExport ==
    /\ pc = "export"
    /\ cur \in {"depth", "seg"}
    /\ \/ /\ Tmp(cur) \notin env.noWrite
          /\ fs' = Exported(fs, cur, run, env.layout)
          /\ fsCall' = fs'
          /\ src_path' = Tmp(cur)
          /\ dst_path' = Dst(cur)
          /\ pc' = "ssf_load"
          /\ UNCHANGED <<cur, exc, run, model, todo, env, fs0, prev>>
       \/ Raise("export")

\* if os.path.exists(tmp): os.remove(tmp)
RmTmp ==
    /\ pc = "rmtmp"
    /\ IF Exists(fs, Tmp(cur))
       THEN IF Tmp(cur) \in env.noDelete
            THEN Raise("remove")
            ELSE /\ fs' = [fs EXCEPT ![Tmp(cur)] = NoFile]
                 /\ pc' = "report"
                 /\ UNCHANGED <<cur, exc, run, src_path, dst_path, model, todo, env, fs0, fsCall, prev>>
       ELSE /\ pc' = "report"
            /\ UNCHANGED <<fs, cur, exc, run, src_path, dst_path, model, todo, env, fs0, fsCall, prev>>

\* what follows a procedure
After(m) == IF m = "seg" THEN "summary" ELSE "fetch"

Following(m) == IF m = "seg" THEN m ELSE Procedures[Ord(m) + 1]

\* a mutant of Report: the size is looked up inside try / except
ReportLenient ==
    /\ pc = "report"
    /\ exc' = IF Exists(fs, Dst(cur)) THEN exc ELSE "size"
    /\ pc' = After(cur)
    /\ cur' = Following(cur)
    /\ UNCHANGED <<fs, run, src_path, dst_path, model, todo, env, fs0, fsCall, prev>>

\* print(f"  OK {dst}  ({os.path.getsize(dst)/1e6:.1f} MB)\n")
Report ==
    /\ pc = "report"
    /\ IF Exists(fs, Dst(cur))
       THEN /\ pc' = After(cur)
            /\ cur' = Following(cur)
            /\ UNCHANGED <<fs, exc, run, src_path, dst_path, model, todo, env, fs0, fsCall, prev>>
       ELSE Raise("size")

\* print("All models exported successfully!") and the listing of sizes
Summary ==
    /\ pc = "summary"
    /\ pc' = "done"
    /\ UNCHANGED <<fs, cur, exc, run, src_path, dst_path, model, todo, env, fs0, fsCall, prev>>

\* python export_models.py, once more, after the run has ended either way
Rerun ==
    /\ pc \in {"done", "aborted"}
    /\ run < MaxRuns
    /\ run' = run + 1
    /\ prev' = pc
    /\ pc' = "fetch"
    /\ cur' = "yolo"
    /\ exc' = "none"
    /\ fs0' = fs
    /\ UNCHANGED <<fs, src_path, dst_path, model, todo, env, fsCall>>

InitCandidates ==
    {YoloSrc, YoloDst, DepthDst, Suffixed(YoloDst, <<"data">>),
     Suffixed(SegDst, <<"data">>), Suffixed(DepthTmp, <<"data">>)}

Init ==
    /\ env \in Envs({"cwd", "alt"}, {0, 1})
    /\ \E S \in SUBSET InitCandidates :
         /\ Cardinality(S) <= MaxInitFiles
         /\ fs = [p \in Paths |-> IF p \in S THEN Old(env.oldSize) ELSE NoFile]
    /\ pc = "fetch"
    /\ cur = "yolo"
    /\ exc = "none"
    /\ run = 1
    /\ src_path = NoPath
    /\ dst_path = NoPath
    /\ model = NoFile
    /\ todo = <<>>
    /\ fs0 = fs
    /\ fsCall = fs
    /\ prev = "none"

Next ==
    \/ Fetch
    \/ YoloExport
    \/ YoloMove
    \/ TorchExport
    \/ SsfLoad
    \/ SsfSave
    \/ SsfRm
    \/ SsfReturn
    \/ RmTmp
    \/ Report
    \/ Summary
    \/ Rerun

Spec == Init /\ [][Next]_vars

-----------------------------------------------------------------------------
(* Vocabulary of the properties *)

\* p is named src, a dot, and something more, in src's directory
NamedAfter(p, src) ==
    /\ p.dir = CanonDir(src.dir)
    /\ Len(p.name) > Len(src.name)
    /\ \A i \in 1..Len(src.name) : p.name[i] = src.name[i]

\* the existing files named after d
Siblings(f, d) == {p \in Paths : NamedAfter(p, d) /\ Exists(f, p)}

\* procedure m of the current run has got past its size report
Completed(m) == pc \in {"summary", "done"} \/ Ord(cur) > Ord(m)

\* a file's content, whichever run wrote it
Content(c) == [art |-> c.art, size |-> c.size, refs |-> c.refs]

\* some file that was there when save_single_file was entered is gone
SomethingDeleted == \E p \in Paths : Exists(fsCall, p) /\ ~Exists(fs, p)

\* what save_single_file writes at dst_path
Written == Saved(fsCall[Canon(dst_path)], Loaded(fsCall, src_path))

\* the files once dst_path is written
AfterSave == [fsCall EXCEPT ![Canon(dst_path)] = Written]

\* the files the two patterns list under a path string other than dst_path
Removable == {Canon(q) : q \in GlobAny(AfterSave, src_path) \ {dst_path}}

-----------------------------------------------------------------------------
(* C1 *)

\* C1, as claimed: after a successful run each of the three destination files
\* exists, has a non-zero size, and has no file named after it beside it.
C1_Original ==
    pc = "done" =>
        \A d \in Destinations :
            Exists(fs, d) /\ fs[d].size > 0 /\ Siblings(fs, d) = {}

\* C1, amended: after a successful run each destination file exists; the two
\* that save_single_file writes have a non-zero size, and the YOLO one has
\* unless it is a file that was already there (at the destination or at
\* ./yolov8n.onnx) when the run started; the files named after a destination
\* are those that were there when the run started.
C1_Amended ==
    pc = "done" =>
        /\ \A d \in Destinations :
              Exists(fs, d) /\ Siblings(fs, d) = Siblings(fs0, d)
        /\ fs[DepthDst].size > 0
        /\ fs[SegDst].size > 0
        /\ fs[YoloDst].size > 0 \/ fs[YoloDst] \in {fs0[YoloDst], fs0[YoloSrc]}

C1_Witness ==
    /\ pc = "done"
    /\ Siblings(fs, YoloDst) # {}
    /\ fs[YoloDst].run = run

-----------------------------------------------------------------------------
(* C2 *)

\* C2, as claimed: after a successful run neither temporary graph file exists,
\* nor any external-data file of theirs, whatever the export wrote.
C2_Original ==
    pc = "done" =>
        \A m \in {"depth", "seg"} :
            /\ ~Exists(fs, Tmp(m))
            /\ Siblings(fs, Tmp(m)) = {}
            /\ \A e \in ExtFiles(Tmp(m), env.layout) : ~Exists(fs, e)

\* C2, amended: after a successful run neither temporary graph file exists,
\* and a file named after one of them exists only if its deletion failed;
\* external-data files under other names are not looked for.
C2_Amended ==
    pc = "done" =>
        \A m \in {"depth", "seg"} :
            /\ ~Exists(fs, Tmp(m))
            /\ Siblings(fs, Tmp(m)) \subseteq env.noDelete

C2_Witness ==
    /\ pc = "done"
    /\ env.layout = {"data", "part"}
    /\ Siblings(fs, DepthTmp) = {Suffixed(DepthTmp, <<"data">>)}
    /\ Siblings(fs, SegTmp) = {}

-----------------------------------------------------------------------------
(* C3 *)

\* C3, as claimed: when save_single_file returns the destination exists and
\* nothing else of the model is left: not the source graph file, not a file
\* named after it, not an external-data file it refers to.
C3_Original ==
    pc = "returned" =>
        /\ Exists(fs, Canon(dst_path))
        /\ \A p \in ({Canon(src_path)} \cup fsCall[Canon(src_path)].refs
                      \cup Siblings(fsCall, src_path)) \ {Canon(dst_path)} : ~Exists(fs, p)

\* C3, amended: when save_single_file returns the source graph file is still
\* there; of the files its two patterns list under a path string other than
\* dst_path, those whose deletion did not fail are gone; the destination
\* holds the self-contained graph unless it is one of them; every other file
\* is as it was.
C3_Amended ==
    pc = "returned" =>
        /\ Exists(fs, Canon(src_path))
        /\ \A p \in Removable : Exists(fs, p) => p \in env.noDelete
        /\ Canon(dst_path) \notin Removable =>
              fs[Canon(dst_path)] = Written /\ Written.refs = {}
        /\ \A p \in Paths \ (Removable \cup {Canon(dst_path)}) : fs[p] = fsCall[p]

C3_Witness ==
    /\ pc = "returned"
    /\ Canon(src_path) # Canon(dst_path)
    /\ Siblings(fsCall, src_path) # {}
    /\ Siblings(fs, src_path) = {}
    /\ fsCall[Canon(src_path)].refs # {}
    /\ \A e \in fsCall[Canon(src_path)].refs : Exists(fs, e)

-----------------------------------------------------------------------------
(* C4 *)

\* C4, as claimed: save_single_file deletes nothing before the destination is
\* written, and when no deletion it attempts is refused, no file named
\* src_path, a dot, and a suffix is left when it returns, except the file at
\* dst_path, which is.
C4_Claim ==
    /\ SomethingDeleted => pc \in {"ssf_rm", "returned"}
    /\ pc = "returned" /\ Removable \cap env.noDelete = {} =>
          /\ Siblings(fs, src_path) \subseteq {Canon(dst_path)}
          /\ Exists(fs, Canon(dst_path))

-----------------------------------------------------------------------------
(* C5 *)

\* C5: called with the destination equal to the source, save_single_file
\* leaves the file it wrote there, whatever files are named after it.
C5_SelfSave ==
    pc = "returned" /\ src_path = dst_path =>
        Exists(fs, Canon(dst_path)) /\ fs[Canon(dst_path)] = Written

C5_Witness ==
    /\ pc = "returned"
    /\ src_path = dst_path
    /\ Cardinality(Siblings(fsCall, src_path)) = 2
    /\ Siblings(fs, src_path) = {}
    /\ Exists(fs, Canon(dst_path))

-----------------------------------------------------------------------------
(* C6 *)

\* C6, as claimed: once a procedure of the current run is completed, the file
\* at its destination is the model this run exported.
C6_Claim ==
    \A m \in {"yolo", "depth", "seg"} :
        Completed(m) => fs[Dst(m)].art = m /\ fs[Dst(m)].run = run

-----------------------------------------------------------------------------
(* C7 *)

\* C7: an exception ends the run where it is raised: from then on, until the
\* script is started again, the position, the procedure and the files stay as
\* they are, so no later procedure starts, the success message is not
\* printed, and the destinations of the completed procedures are in place.
C7_Abort ==
    /\ [](exc # "none" => pc = "aborted")
    /\ [](pc = "aborted" => \A m \in {"yolo", "depth", "seg"} :
                               Ord(m) < Ord(cur) => Exists(fs, Dst(m)))
    /\ [][exc # "none" /\ run' = run => pc' = pc /\ cur' = cur /\ fs' = fs]_vars

C7_Witness ==
    /\ pc = "aborted"
    /\ exc = "write"
    /\ cur = "depth"
    /\ fs[YoloDst] = Graph("yolo", run, {})

-----------------------------------------------------------------------------
(* C8 *)

\* C8, as claimed: no failure to delete a file ends the run.
C8_Claim == pc = "aborted" => exc # "remove"

-----------------------------------------------------------------------------
(* C9 *)

\* C9: save_single_file raises a load error when the source cannot be loaded
\* and a write error when the destination cannot be written; either ends the
\* run, with every file as it was when the function was entered.
C9_Errors ==
    /\ ~Loadable(fsCall, src_path) =>
          pc = "ssf_load" \/ (pc = "aborted" /\ exc = "load")
    /\ Loadable(fsCall, src_path) /\ Canon(dst_path) \in env.noWrite =>
          pc \in {"ssf_load", "ssf_save"} \/ (pc = "aborted" /\ exc = "write")
    /\ exc \in {"load", "write"} => pc = "aborted" /\ fs = fsCall

C9_Witness ==
    /\ pc = "aborted"
    /\ exc = "load"
    /\ ~Exists(fsCall, Canon(src_path))
    /\ Siblings(fs, src_path) # {}

-----------------------------------------------------------------------------
(* C10 *)

\* C10: a successful run that follows a successful run leaves the output
\* directory as it found it: the same files with the same contents.
C10_Idempotent ==
    pc = "done" /\ prev = "done" =>
        \A p \in Paths : p.dir = OUT => Content(fs[p]) = Content(fs0[p])

C10_Witness ==
    /\ pc = "done"
    /\ prev = "done"
    /\ fs[DepthDst].run = run
    /\ fs0[DepthDst].run = run - 1
    /\ \E p \in Paths : p.dir = OUT /\ fs[p].art = "old"

====
